---- MODULE Spec2Model ----
(***************************************************************************)
(* Model of rust/kernel/error.rs: the kernel `Error` type, its catalogue   *)
(* of constants, the `From` conversions, the native-boundary adapter       *)
(* `from_kernel_result_helper` and the error-pointer decoder               *)
(* `from_kernel_err_ptr`.                                                  *)
(*                                                                         *)
(* Integers keep their width: a c_int is a 32-bit signed value, an i16 a   *)
(* 16-bit signed value, and a c_long / pointer address is a 64-bit word    *)
(* written as four 16-bit limbs, most significant first.                   *)
(***************************************************************************)
EXTENDS Integers, Sequences, FiniteSets, TLC

\* How many values are sampled on each side of every interesting boundary.
Span == 2

\* ------------------------------------------------------------------------
\* Machine integers
\* ------------------------------------------------------------------------
I16_MIN == -32768
I16_MAX == 32767
I32_MIN == -2147483647 - 1
I32_MAX == 2147483647
LIMB == 65536
LIMB_MAX == 65535

\* The values within Span of c, clipped to the c_int range.
Around(c) ==
  { c + d : d \in { k \in (0 - Span)..Span :
                      /\ (c >= 0 => k <= I32_MAX - c)
                      /\ (c < 0 => k >= I32_MIN - c) } }

\* `x as i16` for a c_int x: keep the low 16 bits, read them as signed.
AsI16(x) ==
  LET low == x % LIMB
  IN  IF low > I16_MAX THEN low - LIMB ELSE low

\* A c_long as four 16-bit limbs <<l3, l2, l1, l0>>.
\* `l as i32`: keep the low 32 bits (limbs l1, l0), read them as signed.
LongAsI32(l) ==
  LET hi == IF l[3] > I16_MAX THEN l[3] - LIMB ELSE l[3]
  IN  hi * LIMB + l[4]

\* ------------------------------------------------------------------------
\* bindings: the host's symbolic constants
\* ------------------------------------------------------------------------
bindings_EPERM == 1
bindings_ENOENT == 2
bindings_ESRCH == 3
bindings_EINTR == 4
bindings_EAGAIN == 11
bindings_ENOMEM == 12
bindings_EFAULT == 14
bindings_EBUSY == 16
bindings_EINVAL == 22
bindings_ESPIPE == 29
bindings_ERESTARTSYS == 512
\* MAX_ERRNO of the usual host build.
HOST_MAX_ERRNO == 4095

\* ------------------------------------------------------------------------
\* struct Error(c_int) and its catalogue
\* ------------------------------------------------------------------------
Error(n) == [errno |-> n]

Error_EINVAL == Error(-bindings_EINVAL)
Error_ENOMEM == Error(-bindings_ENOMEM)
Error_EFAULT == Error(-bindings_EFAULT)
Error_ESPIPE == Error(-bindings_ESPIPE)
Error_EAGAIN == Error(-bindings_EAGAIN)
Error_EBUSY == Error(-bindings_EBUSY)
Error_ERESTARTSYS == Error(-bindings_ERESTARTSYS)
Error_EPERM == Error(-bindings_EPERM)
Error_ESRCH == Error(-bindings_ESRCH)
Error_ENOENT == Error(-bindings_ENOENT)
Error_EINTR == Error(-bindings_EINTR)

CatalogueNames ==
  { "EINVAL", "ENOMEM", "EFAULT", "ESPIPE", "EAGAIN", "EBUSY",
    "ERESTARTSYS", "EPERM", "ESRCH", "ENOENT", "EINTR" }

\* The associated constant Error::<name>.
ErrorConst(name) ==
  CASE name = "EINVAL" -> Error_EINVAL
    [] name = "ENOMEM" -> Error_ENOMEM
    [] name = "EFAULT" -> Error_EFAULT
    [] name = "ESPIPE" -> Error_ESPIPE
    [] name = "EAGAIN" -> Error_EAGAIN
    [] name = "EBUSY" -> Error_EBUSY
    [] name = "ERESTARTSYS" -> Error_ERESTARTSYS
    [] name = "EPERM" -> Error_EPERM
    [] name = "ESRCH" -> Error_ESRCH
    [] name = "ENOENT" -> Error_ENOENT
    [] name = "EINTR" -> Error_EINTR

\* Variant of from_kernel_errno that stores the (saturating) magnitude of
\* errno.
from_kernel_errno_magnitude(errno) ==
  Error(IF errno = I32_MIN THEN I32_MAX ELSE IF errno < 0 THEN -errno ELSE errno)

\* Error::from_kernel_errno
from_kernel_errno(errno) == Error(errno)

\* Error::to_kernel_errno
to_kernel_errno(self) == self.errno

\* impl From<TryFromIntError> for Error
From_TryFromIntError(e) == Error_EINVAL

\* impl From<Utf8Error> for Error
From_Utf8Error(e) == Error_EINVAL

\* Variant of the TryReserveError conversion that maps a capacity overflow
\* to EINVAL.
From_TryReserveError_overflow(e) ==
  IF e.kind = "CapacityOverflow" THEN Error_EINVAL ELSE Error_ENOMEM

\* impl From<TryReserveError> for Error
From_TryReserveError(e) == Error_ENOMEM

\* impl From<AllocError> for Error
From_AllocError(e) == Error_ENOMEM

\* ------------------------------------------------------------------------
\* Result<T>
\* ------------------------------------------------------------------------
Ok(v) == [tag |-> "Ok", val |-> v]
Err(e) == [tag |-> "Err", err |-> e]


\* ------------------------------------------------------------------------
\* Build-time invariant
\* ------------------------------------------------------------------------
\* Variant of the assertion that leaves out the host whose -MAX_ERRNO is
\* exactly i16::MIN.
static_assert_strict(max) == max < -I16_MIN

\* Variant of the assertion that bounds MAX_ERRNO by u16::MAX.
static_assert_u16(max) == max <= LIMB_MAX

\* Does `bindings::MAX_ERRNO <= -(i16::MIN as i32) as u32` hold for max?
static_assert(max) == max <= -I16_MIN

\* ------------------------------------------------------------------------
\* Native-boundary adapter
\* ------------------------------------------------------------------------
\* The return types T: From<i16> of the model.
ReturnTypes == { "i16", "i32" }

\* A value of the integer type ty.
Typed(ty, v) == [ty |-> ty, val |-> v]

\* <T as From<i16>>::from(n): sign-extending, value-preserving.
T_from(T, n) == Typed(T, n)

\* Variant of the adapter that narrows the success value as well.
from_kernel_result_helper_narrow_ok(T, r) ==
  IF r.tag = "Ok"
    THEN T_from(T, AsI16(r.val.val))
    ELSE T_from(T, AsI16(to_kernel_errno(r.err)))

\* from_kernel_result_helper::<T>(r)
from_kernel_result_helper(T, r) ==
  IF r.tag = "Ok"
    THEN r.val
    ELSE T_from(T, AsI16(to_kernel_errno(r.err)))

\* ------------------------------------------------------------------------
\* Pointers and the host's error-pointer helpers
\* ------------------------------------------------------------------------
VARIABLES
  MAX_ERRNO,  \* bindings::MAX_ERRNO of the host this build targets
  build,      \* "pending", "ok" or "failed": outcome of the static assertion
  cur,        \* the Error the caller holds: <<>> or <<e>>
  origin,     \* the catalogue constant cur came from unchanged, or "none"
  trip,       \* to_kernel_errno / from_kernel_errno steps applied to origin
  last        \* the last call: [op, in, out, calls]

vars == <<MAX_ERRNO, build, cur, origin, trip, last>>

PointeeTypes == { "c_void", "platform_device" }

\* *mut T as an address (64 bits, four limbs) and a pointee type.
Ptr(addr, pointee) == [addr |-> addr, pointee |-> pointee]

\* ptr.cast::<c_void>(): changes the pointee type only.
cast(ptr) == Ptr(ptr.addr, "c_void")

\* rust_helper_is_err(ptr) = IS_ERR(ptr): the address, read as an unsigned
\* long, lies in the top MAX_ERRNO addresses.
rust_helper_is_err(ptr) ==
  /\ ptr.addr[1] = LIMB_MAX
  /\ ptr.addr[2] = LIMB_MAX
  /\ LongAsI32(ptr.addr) < 0
  /\ LongAsI32(ptr.addr) >= -MAX_ERRNO

\* rust_helper_ptr_err(ptr) = PTR_ERR(ptr): the address read as a c_long.
rust_helper_ptr_err(ptr) == ptr.addr

\* One call into the host: the function, its argument and what it returned.
HostCall(fn, arg, ret) == [fn |-> fn, arg |-> arg, ret |-> ret]

\* Variant of the decoder that reads the extracted value as an unsigned
\* 16-bit integer.
from_kernel_err_ptr_u16(ptr) ==
  LET const_ptr == cast(ptr)
      is_err == rust_helper_is_err(const_ptr)
      queried == << HostCall("rust_helper_is_err", const_ptr, is_err) >>
  IN  IF is_err
        THEN LET err == rust_helper_ptr_err(const_ptr)
             IN  [ret |-> Err(from_kernel_errno(err[4])),
                  calls |-> Append(queried,
                              HostCall("rust_helper_ptr_err", const_ptr, err))]
        ELSE [ret |-> Ok(ptr), calls |-> queried]

\* Variant of the decoder whose cast keeps only the low 32 bits of the
\* address and sign-extends them.
from_kernel_err_ptr_trunc(ptr) ==
  LET sign == IF ptr.addr[3] > I16_MAX THEN LIMB_MAX ELSE 0
      const_ptr == Ptr(<<sign, sign, ptr.addr[3], ptr.addr[4]>>, "c_void")
      is_err == rust_helper_is_err(const_ptr)
      queried == << HostCall("rust_helper_is_err", const_ptr, is_err) >>
  IN  IF is_err
        THEN LET err == rust_helper_ptr_err(const_ptr)
             IN  [ret |-> Err(from_kernel_errno(LongAsI32(err))),
                  calls |-> Append(queried,
                              HostCall("rust_helper_ptr_err", const_ptr, err))]
        ELSE [ret |-> Ok(ptr), calls |-> queried]

\* Variant of the decoder that extracts the error value before it asks
\* whether the pointer is an error.
from_kernel_err_ptr_eager(ptr) ==
  LET const_ptr == cast(ptr)
      err == rust_helper_ptr_err(const_ptr)
      is_err == rust_helper_is_err(const_ptr)
      queried == << HostCall("rust_helper_ptr_err", const_ptr, err),
                    HostCall("rust_helper_is_err", const_ptr, is_err) >>
  IN  IF is_err
        THEN [ret |-> Err(from_kernel_errno(LongAsI32(err))), calls |-> queried]
        ELSE [ret |-> Ok(ptr), calls |-> queried]

\* from_kernel_err_ptr(ptr): the Result it returns and the host calls it
\* makes, in order.
from_kernel_err_ptr(ptr) ==
  LET const_ptr == cast(ptr)
      is_err == rust_helper_is_err(const_ptr)
      queried == << HostCall("rust_helper_is_err", const_ptr, is_err) >>
  IN  IF is_err
        THEN LET err == rust_helper_ptr_err(const_ptr)
             IN  [ret |-> Err(from_kernel_errno(LongAsI32(err))),
                  calls |-> Append(queried,
                              HostCall("rust_helper_ptr_err", const_ptr, err))]
        ELSE [ret |-> Ok(ptr), calls |-> queried]

\* ------------------------------------------------------------------------
\* Inputs
\* ------------------------------------------------------------------------
\* Host platforms: the usual one and those around the assertion's limit.
MaxErrnoCandidates == {HOST_MAX_ERRNO} \cup Around(-I16_MIN)

\* c_int values a caller may hand over.
HostInts ==
  UNION { Around(c) : c \in { 0, -HOST_MAX_ERRNO, I16_MIN, -LIMB,
                              I32_MIN, I32_MAX } }

\* Values of the return type T.
ValuesOf(T) ==
  IF T = "i16" THEN { Typed(T, v) : v \in { x \in HostInts : x >= I16_MIN /\ x <= I16_MAX } }
               ELSE { Typed(T, v) : v \in HostInts }

\* Magnitudes m for which the address -m (as a long) is sampled.
TopMagnitudes ==
  { m \in Around(1) \cup Around(HOST_MAX_ERRNO) \cup Around(-I16_MIN) :
      m >= 1 /\ m <= LIMB }

Addresses ==
       { <<0, 0, 0, k>> : k \in 0..Span }
  \cup { <<LIMB_MAX, 34944, 0, k>> : k \in 0..Span }
  \cup { <<0, 0, LIMB_MAX, LIMB - m>> : m \in 1..Span }
  \cup { <<LIMB_MAX, LIMB_MAX, LIMB_MAX - 1, LIMB - m>> : m \in 1..Span }
  \cup { <<LIMB_MAX, LIMB_MAX, LIMB_MAX, LIMB - m>> : m \in TopMagnitudes }

Pointers == { Ptr(a, t) : a \in Addresses, t \in PointeeTypes }

\* Instances of the four internal failure kinds.
TryFromIntErrors == { [ty |-> "TryFromIntError"] }
Utf8Errors ==
  { [ty |-> "Utf8Error", valid_up_to |-> n, error_len |-> l] :
      n \in 0..Span, l \in 0..3 }
TryReserveErrors ==
       { [ty |-> "TryReserveError", kind |-> "CapacityOverflow", size |-> 0] }
  \cup { [ty |-> "TryReserveError", kind |-> "AllocError", size |-> n] :
           n \in 1..(Span + 1) }
AllocErrors == { [ty |-> "AllocError"] }

\* ------------------------------------------------------------------------
\* State machine
\* ------------------------------------------------------------------------
NoCall == [op |-> "none", in |-> <<>>, out |-> <<>>, calls |-> <<>>]
Call(op, in, out, calls) == [op |-> op, in |-> in, out |-> out, calls |-> calls]

\* The stage of the round trip at which the caller holds the Error itself.
HeldStage(t) == IF t = 1 THEN 0 ELSE IF t = 3 THEN 2 ELSE t

Init ==
  /\ MAX_ERRNO \in MaxErrnoCandidates
  /\ build = "pending"
  /\ cur = <<>>
  /\ origin = "none"
  /\ trip = 0
  /\ last = NoCall

\* crate::static_assert!(...): the build goes on only if it holds.
StaticAssert ==
  /\ build = "pending"
  /\ build' = IF static_assert(MAX_ERRNO) THEN "ok" ELSE "failed"
  /\ UNCHANGED <<MAX_ERRNO, cur, origin, trip, last>>

\* A caller takes Error::<name>.
TakeConst ==
  /\ build = "ok"
  /\ \E name \in CatalogueNames :
       /\ cur' = << ErrorConst(name) >>
       /\ origin' = name
       /\ last' = Call("const", name, ErrorConst(name), <<>>)
  /\ trip' = 0
  /\ UNCHANGED <<MAX_ERRNO, build>>

\* Error::from_kernel_errno(errno) on an integer handed over by the host.
FromKernelErrno ==
  /\ build = "ok"
  /\ \E errno \in HostInts :
       /\ cur' = << from_kernel_errno(errno) >>
       /\ last' = Call("from_kernel_errno", errno, from_kernel_errno(errno), <<>>)
  /\ origin' = "none"
  /\ trip' = 0
  /\ UNCHANGED <<MAX_ERRNO, build>>

\* e.to_kernel_errno() on the Error the caller holds.
ToKernelErrno ==
  /\ build = "ok"
  /\ cur # <<>>
  /\ last' = Call("to_kernel_errno", cur[1], to_kernel_errno(cur[1]), <<>>)
  /\ trip' = IF origin = "none" THEN 0 ELSE HeldStage(trip) + 1
  /\ UNCHANGED <<MAX_ERRNO, build, cur, origin>>

\* Error::from_kernel_errno on the integer to_kernel_errno just returned.
FromKernelErrnoBack ==
  /\ build = "ok"
  /\ last.op = "to_kernel_errno"
  /\ cur' = << from_kernel_errno(last.out) >>
  /\ last' = Call("from_kernel_errno", last.out, from_kernel_errno(last.out), <<>>)
  /\ trip' = IF origin = "none" THEN 0 ELSE 2
  /\ UNCHANGED <<MAX_ERRNO, build, origin>>

ConvertTryFromIntError ==
  /\ build = "ok"
  /\ \E e \in TryFromIntErrors :
       /\ cur' = << From_TryFromIntError(e) >>
       /\ last' = Call("from", e, From_TryFromIntError(e), <<>>)
  /\ origin' = "none"
  /\ trip' = 0
  /\ UNCHANGED <<MAX_ERRNO, build>>

ConvertUtf8Error ==
  /\ build = "ok"
  /\ \E e \in Utf8Errors :
       /\ cur' = << From_Utf8Error(e) >>
       /\ last' = Call("from", e, From_Utf8Error(e), <<>>)
  /\ origin' = "none"
  /\ trip' = 0
  /\ UNCHANGED <<MAX_ERRNO, build>>

ConvertTryReserveError ==
  /\ build = "ok"
  /\ \E e \in TryReserveErrors :
       /\ cur' = << From_TryReserveError(e) >>
       /\ last' = Call("from", e, From_TryReserveError(e), <<>>)
  /\ origin' = "none"
  /\ trip' = 0
  /\ UNCHANGED <<MAX_ERRNO, build>>

ConvertAllocError ==
  /\ build = "ok"
  /\ \E e \in AllocErrors :
       /\ cur' = << From_AllocError(e) >>
       /\ last' = Call("from", e, From_AllocError(e), <<>>)
  /\ origin' = "none"
  /\ trip' = 0
  /\ UNCHANGED <<MAX_ERRNO, build>>

\* from_kernel_result! { ... } whose body succeeds with a value of type T.
FromKernelResultOk ==
  /\ build = "ok"
  /\ \E T \in ReturnTypes : \E v \in ValuesOf(T) :
       last' = Call("from_kernel_result_helper", [T |-> T, r |-> Ok(v)],
                    from_kernel_result_helper(T, Ok(v)), <<>>)
  /\ trip' = HeldStage(trip)
  /\ UNCHANGED <<MAX_ERRNO, build, cur, origin>>

\* from_kernel_result! { ... } whose body fails with the Error held, which
\* moves into the Result.
FromKernelResultErr ==
  /\ build = "ok"
  /\ cur # <<>>
  /\ \E T \in ReturnTypes :
       last' = Call("from_kernel_result_helper", [T |-> T, r |-> Err(cur[1])],
                    from_kernel_result_helper(T, Err(cur[1])), <<>>)
  /\ cur' = <<>>
  /\ origin' = "none"
  /\ trip' = 0
  /\ UNCHANGED <<MAX_ERRNO, build>>

\* from_kernel_err_ptr(ptr) on a pointer a host function returned.
FromKernelErrPtr ==
  /\ build = "ok"
  /\ \E ptr \in Pointers :
       LET run == from_kernel_err_ptr(ptr)
       IN  /\ last' = Call("from_kernel_err_ptr", ptr, run.ret, run.calls)
           /\ IF run.ret.tag = "Err"
                THEN /\ cur' = << run.ret.err >>
                     /\ origin' = "none"
                     /\ trip' = 0
                ELSE /\ trip' = HeldStage(trip)
                     /\ UNCHANGED <<cur, origin>>
  /\ UNCHANGED <<MAX_ERRNO, build>>

Next ==
  \/ StaticAssert
  \/ TakeConst
  \/ FromKernelErrno
  \/ ToKernelErrno
  \/ FromKernelErrnoBack
  \/ ConvertTryFromIntError
  \/ ConvertUtf8Error
  \/ ConvertTryReserveError
  \/ ConvertAllocError
  \/ FromKernelResultOk
  \/ FromKernelResultErr
  \/ FromKernelErrPtr

Spec == Init /\ [][Next]_vars

TypeOK ==
  /\ MAX_ERRNO \in MaxErrnoCandidates
  /\ build \in { "pending", "ok", "failed" }
  /\ Len(cur) <= 1
  /\ origin \in CatalogueNames \cup { "none" }
  /\ trip \in 0..3


\* ------------------------------------------------------------------------
\* Properties
\* ------------------------------------------------------------------------
AdapterRan == last.op = "from_kernel_result_helper"
AdapterFailed == AdapterRan /\ last.in.r.tag = "Err"
DecoderRan == last.op = "from_kernel_err_ptr"

\* The i16 congruent to x modulo 2^16, as a c_int.
Narrowed16(x) == (((x % LIMB) + (-I16_MIN)) % LIMB) + I16_MIN

\* The low 16 bits of the c_long l read as an i16, as a c_int.
NarrowedLong16(l) == IF l[4] >= -I16_MIN THEN l[4] - LIMB ELSE l[4]

\* bindings::<name>
HostConst(name) ==
  CASE name = "EINVAL" -> bindings_EINVAL
    [] name = "ENOMEM" -> bindings_ENOMEM
    [] name = "EFAULT" -> bindings_EFAULT
    [] name = "ESPIPE" -> bindings_ESPIPE
    [] name = "EAGAIN" -> bindings_EAGAIN
    [] name = "EBUSY" -> bindings_EBUSY
    [] name = "ERESTARTSYS" -> bindings_ERESTARTSYS
    [] name = "EPERM" -> bindings_EPERM
    [] name = "ESRCH" -> bindings_ESRCH
    [] name = "ENOENT" -> bindings_ENOENT
    [] name = "EINTR" -> bindings_EINTR

\* C1: whenever the adapter is given Err(E), for any Error E the layer can
\* produce, it returns T::from of E's raw integer narrowed to i16, and that
\* value is strictly negative.
C1_AdapterFailureSign ==
  AdapterFailed =>
    /\ last.out = Typed(last.in.T, Narrowed16(last.in.r.err.errno))
    /\ last.out.val < 0

\* C2: every Error produced or consumed by the layer has a raw integer whose
\* absolute value is at most bindings::MAX_ERRNO.
C2_MagnitudeInvariant ==
  /\ cur # <<>> =>
       /\ cur[1].errno >= -MAX_ERRNO
       /\ cur[1].errno <= MAX_ERRNO
  /\ AdapterFailed =>
       /\ last.in.r.err.errno >= -MAX_ERRNO
       /\ last.in.r.err.errno <= MAX_ERRNO

\* C3 as stated: the static assertion accepts MAX_ERRNO exactly when it is at
\* most i16::MAX (32767).
C3_FitsPositiveI16 ==
  build # "pending" => (build = "ok" <=> MAX_ERRNO <= I16_MAX)

\* C3 as amended: the static assertion accepts MAX_ERRNO exactly when
\* -MAX_ERRNO is at least i16::MIN, that is when MAX_ERRNO <= 32768.
C3_NegationFitsI16 ==
  build # "pending" => (build = "ok" <=> -MAX_ERRNO >= I16_MIN)

\* The host whose MAX_ERRNO is exactly 32768 has been accepted.
C3_Witness == build = "ok" /\ MAX_ERRNO = -I16_MIN

\* C4: on every accepted host, the adapter's narrowing of -m, for m in
\* 1..MAX_ERRNO, gives back -m.
C4_NarrowingSafety ==
  ( /\ AdapterFailed
    /\ last.in.r.err.errno >= -MAX_ERRNO
    /\ last.in.r.err.errno <= -1 )
  => last.out.val = last.in.r.err.errno

\* The adapter has narrowed -MAX_ERRNO on the host with the largest accepted
\* MAX_ERRNO.
C4_Witness ==
  /\ AdapterFailed
  /\ MAX_ERRNO = -I16_MIN
  /\ last.in.r.err.errno = -MAX_ERRNO
  /\ last.out.val = I16_MIN

\* C5: when the host predicate reports an error pointer, the decoder returns
\* Err of the Error whose raw integer is the extractor's value for that
\* pointer, narrowed to i16 and widened to c_int.
C5_DecoderExtraction ==
  (DecoderRan /\ rust_helper_is_err(cast(last.in))) =>
    /\ last.out.tag = "Err"
    /\ last.out.err.errno = NarrowedLong16(rust_helper_ptr_err(cast(last.in)))

\* The decoder has decoded the error pointer that encodes -MAX_ERRNO.
C5_Witness ==
  /\ DecoderRan
  /\ rust_helper_is_err(cast(last.in))
  /\ last.out.tag = "Err"
  /\ last.out.err.errno = -MAX_ERRNO

\* C6: the adapter returns the success value itself for Ok(V), and T::from
\* of the i16-narrowed raw integer of E for Err(E).
C6_AdapterEquivalence ==
  AdapterRan =>
    IF last.in.r.tag = "Ok"
      THEN last.out = last.in.r.val
      ELSE last.out = Typed(last.in.T, Narrowed16(last.in.r.err.errno))

\* The adapter has passed through a success value that does not fit an i16.
C6_Witness ==
  /\ AdapterRan
  /\ last.in.r.tag = "Ok"
  /\ last.in.r.val.val > I16_MAX
  /\ last.out.val = last.in.r.val.val

\* C7: when the host predicate reports no error, the decoder returns Ok of
\* the very pointer it was given.
C7_DecoderPassthrough ==
  (DecoderRan /\ ~rust_helper_is_err(cast(last.in))) =>
    last.out = Ok(last.in)

\* The decoder has passed through a typed pointer whose low 32 bits alone
\* would read as an error value.
C7_Witness ==
  /\ DecoderRan
  /\ last.in.pointee # "c_void"
  /\ last.in.addr = <<0, 0, LIMB_MAX, LIMB_MAX>>
  /\ last.out = Ok(last.in)

\* C8: TryFromIntError and Utf8Error always convert to -EINVAL, AllocError
\* and TryReserveError always to -ENOMEM.
C8_ConversionTotality ==
  last.op = "from" =>
    /\ last.in.ty \in { "TryFromIntError", "Utf8Error" } =>
         to_kernel_errno(last.out) = -bindings_EINVAL
    /\ last.in.ty \in { "AllocError", "TryReserveError" } =>
         to_kernel_errno(last.out) = -bindings_ENOMEM

\* A capacity overflow has been converted.
C8_Witness ==
  /\ last.op = "from"
  /\ last.in.ty = "TryReserveError"
  /\ last.in.kind = "CapacityOverflow"
  /\ cur = << last.out >>

\* C9: a catalogue constant taken through to_kernel_errno, from_kernel_errno
\* and to_kernel_errno again yields its own raw integer, the negation of the
\* host constant.
C9_RoundTrip ==
  origin # "none" =>
    /\ cur # <<>>
    /\ cur[1].errno = -HostConst(origin)
    /\ trip \in { 1, 3 } =>
         /\ last.op = "to_kernel_errno"
         /\ last.out = -HostConst(origin)

\* ERESTARTSYS has gone the whole round trip.
C9_Witness ==
  /\ origin = "ERESTARTSYS"
  /\ trip = 3
  /\ last.op = "to_kernel_errno"

\* C10: the decoder queries the predicate first, once, on the address it
\* was given; it queries the extractor only after the predicate returned
\* true, once, on the same address, and never when it returned false.
C10_CallProtocol ==
  DecoderRan =>
    /\ Len(last.calls) >= 1
    /\ last.calls[1].fn = "rust_helper_is_err"
    /\ last.calls[1].arg.addr = last.in.addr
    /\ \A i \in 2..Len(last.calls) :
         /\ i = 2
         /\ last.calls[i].fn = "rust_helper_ptr_err"
         /\ last.calls[i].arg.addr = last.in.addr
         /\ last.calls[1].ret = TRUE
    /\ last.calls[1].ret = FALSE => Len(last.calls) = 1

\* The decoder has queried both host functions.
C10_Witness ==
  /\ DecoderRan
  /\ Len(last.calls) = 2
  /\ last.out.tag = "Err"

====
